---- MODULE Spec2Model ----
(***************************************************************************)
(* A model of the retrieval-and-refinement engine of codexrag:             *)
(*   IndexStore (index_store.py), HybridRetriever (retriever.py),          *)
(*   Reranker (rerank.py), CodeGraph (graph/code_graph.py),                *)
(*   GraphEnhancedRetriever (graph/graph_retriever.py),                    *)
(*   Orchestrator (agents/orchestrator.py), SafetyAgent                    *)
(*   (agents/safety_agent.py) and split_long_chunks (chunking.py).         *)
(*                                                                         *)
(* Conventions.                                                            *)
(*  - A text is a sequence of one-character strings over {a, b, _, space}. *)
(*  - A score is an integer counting fifths: the model value v stands for  *)
(*    the float v/5, so that 0.8 * s is exact for every first-pass score.  *)
(*  - Python's None is the record field none = TRUE.                       *)
(*  - A call that can raise returns an outcome [raised, hits].             *)
(*  - Sequences are 1-based; the padding index -1 of faiss stays -1.       *)
(***************************************************************************)
EXTENDS Integers, Sequences, FiniteSets, TLC

VARIABLES
    disk,            \* the index directory: vectors.faiss, chunks.jsonl, bm25.json
    chunks,          \* IndexStore.chunks
    bm25,            \* IndexStore.bm25 (None, or the BM25Okapi corpus)
    faiss_index,     \* IndexStore.faiss_index (None, or the stored vectors)
    reranker,        \* HybridRetriever.reranker is configured
    code_graph,      \* GraphEnhancedRetriever.graph: None, or the CodeGraph
    max_expanded,    \* GraphEnhancedRetriever.max_expanded
    call,            \* the query-path call in progress or just returned
    result,          \* the outcome of that call
    related,         \* the set of ids a graph query returned
    pc,              \* where Orchestrator.query stands
    args,            \* the arguments of the running Orchestrator.query
    locals,          \* its local variables: hits, hits2, response, confidence, context
    trace,           \* history of the running query: calls made, first confidence
    llm,             \* Orchestrator.llm: None before construction, or the LLM object
    safety,          \* Orchestrator.safety: None, or the SafetyAgent with its audit log
    saving,          \* where a stepwise IndexStore.save stands, and what it saves
    splitting        \* where a split_long_chunks call stands: its arguments and locals

storeVars == <<disk, chunks, bm25, faiss_index, reranker, saving, splitting>>
graphVars == <<code_graph, max_expanded>>
callVars == <<call, result, related>>
orchVars == <<pc, args, locals, trace, llm, safety>>
vars == <<disk, chunks, bm25, faiss_index, reranker, code_graph, max_expanded,
          call, result, related, pc, args, locals, trace, llm, safety, saving,
          splitting>>

----------------------------------------------------------------------------
(* Bounds of the model *)

MaxChunks == 2       \* most fragments handed to one index build
MaxBuilds == 2       \* most stepwise index builds in one behaviour
MaxFiles == 3        \* most files handed to one graph build
MaxQueryLen == 3     \* longest query handed to the intent classifier
MaxHits == 2         \* longest hit list handed to the orchestrator's merge
MaxK == 2            \* largest top_k_bm25 / top_k_vector / top_k_rerank
MaxAudit == 2        \* most entries the audit log grows to in one behaviour
MaxPieces == 6       \* most fragments of a split whose list the model keeps
MaxChars == 2        \* largest max_chars and overlap_chars of a split

----------------------------------------------------------------------------
(* Generic helpers *)

Min(a, b) == IF a < b THEN a ELSE b

\* Python seq[:k] for k >= 0
Take(seq, k) == SubSeq(seq, 1, Min(k, Len(seq)))

Range(seq) == {seq[i] : i \in 1..Len(seq)}

\* stable insertion of record r (field score) into a list sorted by score descending
RECURSIVE InsertDesc(_, _)
InsertDesc(sorted, r) ==
    IF sorted = <<>> THEN <<r>>
    ELSE IF Head(sorted).score >= r.score
         THEN <<Head(sorted)>> \o InsertDesc(Tail(sorted), r)
         ELSE <<r>> \o sorted

\* sorted(seq, key=score, reverse=True): stable, equal scores keep their order
RECURSIVE SortByScoreDesc(_)
SortByScoreDesc(seq) ==
    IF seq = <<>> THEN <<>>
    ELSE InsertDesc(SortByScoreDesc(SubSeq(seq, 1, Len(seq) - 1)), seq[Len(seq)])

\* a set as a list in the order of the sequence ord
RECURSIVE ListOf(_, _)
ListOf(S, ord) ==
    IF ord = <<>> THEN <<>>
    ELSE (IF Head(ord) \in S THEN <<Head(ord)>> ELSE <<>>) \o ListOf(S, Tail(ord))

Ok(hits) == [raised |-> FALSE, hits |-> hits]
Raised == [raised |-> TRUE, hits |-> <<>>]

----------------------------------------------------------------------------
(* Texts, fragments and the external models *)

IsWordChar(c) == c /= " "

RECURSIVE SplitTokens(_, _, _)
SplitTokens(text, i, cur) ==
    LET flush == IF cur = <<>> THEN <<>> ELSE <<cur>>
    IN  IF i > Len(text) THEN flush
        ELSE IF IsWordChar(text[i])
             THEN SplitTokens(text, i + 1, Append(cur, text[i]))
             ELSE flush \o SplitTokens(text, i + 1, <<>>)

\* re.split(r"[^A-Za-z0-9_]+", text) without the empty pieces
tokenize(text) == SplitTokens(text, 1, <<>>)

Chunk(id, text, path, sl, el) ==
    [chunk_id |-> id, text |-> text,
     meta |-> [type |-> "code", path |-> path, start_line |-> sl, end_line |-> el,
               source_entity |-> <<>>]]

RetrievalHit(score, chunk) == [score |-> score, chunk |-> chunk]

ChunkPool ==
    { Chunk(<<"A">>, <<"b">>, "f.py", 1, 2),
      Chunk(<<"B">>, <<"a">>, "f.py", 3, 4),
      Chunk(<<"C">>, <<"a", "_", "b", " ", "b">>, "g.py", 1, 1) }

\* the fragment lists an index build can be handed: distinct fragments, not empty
ChunkLists ==
    { cs \in UNION {[1..n -> ChunkPool] : n \in 1..MaxChunks} :
        \A i, j \in 1..Len(cs) : i /= j => cs[i].chunk_id /= cs[j].chunk_id }

Queries ==
    { <<>>, <<"b">>, <<"b", "_", "b">>, <<"b", " ", "a", "_", "b">> }

KValues == 1..MaxK           \* top_k_bm25, top_k_vector
KFinalValues == 0..MaxK      \* top_k_rerank (0 in the "fast" performance mode)

RECURSIVE CountIn(_, _)
CountIn(x, seq) ==
    IF seq = <<>> THEN 0
    ELSE (IF Head(seq) = x THEN 1 ELSE 0) + CountIn(x, Tail(seq))

\* SentenceTransformer.encode: the embedding of a text (one dimension)
Embed(text) == CountIn("a", text) - CountIn("b", text)

RECURSIVE SumTf(_, _)
SumTf(qtok, doc) ==
    IF qtok = <<>> THEN 0 ELSE CountIn(Head(qtok), doc) + SumTf(Tail(qtok), doc)

\* BM25Okapi.get_scores: one score per document of the corpus, the term
\* frequencies of the query tokens summed; an empty token list scores 0 everywhere
get_scores(corpus, qtok) == [i \in 1..Len(corpus) |-> 5 * SumTf(qtok, corpus[i])]

\* CrossEncoder.predict on one (query, text) pair: a logit, negative without overlap
predict(query, text) == 5 * (SumTf(tokenize(query), tokenize(text)) - 1)

----------------------------------------------------------------------------
(* IndexStore *)

NoneValue == [none |-> TRUE, data |-> <<>>]
Some(d) == [none |-> FALSE, data |-> d]
NoFile == [exists |-> FALSE, data |-> <<>>]
File(d) == [exists |-> TRUE, data |-> d]

EmptyDir == [faiss |-> NoFile, chunks |-> NoFile, bm25 |-> NoFile]

\* IndexStore.build followed by IndexStore.save, as build_index runs them
\* on a store of its own
SavedIndex(cs) ==
    [faiss  |-> File([i \in 1..Len(cs) |-> Embed(cs[i].text)]),
     chunks |-> File([i \in 1..Len(cs) |->
                        [chunk_id |-> cs[i].chunk_id, text |-> cs[i].text,
                         meta |-> cs[i].meta]]),
     bm25   |-> File([i \in 1..Len(cs) |-> tokenize(cs[i].text)])]

\* no save is under way; builds counts the stepwise builds begun so far
NotSaving(builds) == [step |-> "idle", cs |-> <<>>, builds |-> builds]

\* IndexStore.load: the three fields after loading directory d into a store
\* whose fields were f, c, b
load_faiss(d, f) == IF d.faiss.exists THEN Some(d.faiss.data) ELSE f
load_chunks(d) ==
    IF d.chunks.exists
    THEN [i \in 1..Len(d.chunks.data) |->
            [chunk_id |-> d.chunks.data[i].chunk_id, text |-> d.chunks.data[i].text,
             meta |-> d.chunks.data[i].meta]]
    ELSE <<>>
load_bm25(d, b) ==
    IF d.bm25.exists /\ d.bm25.data /= <<>> THEN Some(d.bm25.data) ELSE b

RECURSIVE hits_from(_, _)
hits_from(idxs, scores) ==
    IF idxs = <<>> \/ scores = <<>> THEN <<>>
    ELSE LET i == Head(idxs)
             rest == hits_from(Tail(idxs), Tail(scores))
         IN  IF i < 1 \/ i > Len(chunks) THEN rest
             ELSE <<RetrievalHit(Head(scores), chunks[i])>> \o rest

\* np.argsort(scores)[::-1]: descending score, equal scores by descending index
ArgsortReversed(scores) ==
    LET n == Len(scores)
        byIndexDesc == [j \in 1..n |-> [score |-> scores[n + 1 - j], idx |-> n + 1 - j]]
        sorted == SortByScoreDesc(byIndexDesc)
    IN  [j \in 1..n |-> sorted[j].idx]

\* search_bm25 without the check for a missing BM25 object: the call on None raises
search_bm25_unguarded(query, k) ==
    IF bm25.none THEN Raised
    ELSE LET scores == get_scores(bm25.data, tokenize(query))
             idxs == Take(ArgsortReversed(scores), k)
         IN  Ok(hits_from(idxs, [j \in 1..Len(idxs) |-> scores[idxs[j]]]))

search_bm25(query, k) ==
    IF bm25.none THEN Ok(<<>>)
    ELSE LET scores == get_scores(bm25.data, tokenize(query))
             idxs == Take(ArgsortReversed(scores), k)
         IN  Ok(hits_from(idxs, [j \in 1..Len(idxs) |-> scores[idxs[j]]]))

\* faiss IndexFlatIP.search: the k largest inner products, equal ones by
\* ascending index, padded with index -1 when the index holds fewer than k vectors
FaissSearch(vecs, qv, k) ==
    LET n == Len(vecs)
        all == SortByScoreDesc([j \in 1..n |-> [score |-> 5 * qv * vecs[j], idx |-> j]])
    IN  [j \in 1..k |-> IF j <= n THEN all[j] ELSE [score |-> 0, idx |-> -1]]

search_vector(query, k) ==
    IF faiss_index.none THEN Ok(<<>>)
    ELSE LET found == FaissSearch(faiss_index.data, Embed(query), k)
         IN  Ok(hits_from([j \in 1..k |-> found[j].idx], [j \in 1..k |-> found[j].score]))

----------------------------------------------------------------------------
(* split_long_chunks (chunking.py) *)

\* locals of split_long_chunks: the fragments of the for loop still to come (the
\* first is ch inside the while loop), start, part and out
NotSplitting ==
    [pc |-> "idle", chunks |-> <<>>, max_chars |-> 0, overlap_chars |-> 0,
     start |-> 0, part |-> 0, out |-> <<>>]

\* sha256_text(f"{ch.chunk_id}:part{part}:{start}:{end}"): the digest stands for
\* the string it is taken of
PartId(ch, part, start, end) == ch.chunk_id \o <<part, start, end>>

\* the fragment of one loop iteration: text[start:end] with the meta of ch and
\* part, char_start, char_end
Piece(ch, part, start, end) ==
    [chunk_id |-> PartId(ch, part, start, end),
     text |-> SubSeq(ch.text, start + 1, end),
     meta |-> [part |-> part, char_start |-> start, char_end |-> end] @@ ch.meta]

\* a loop body that restarts the next piece where this one ended
NextStartNoOverlap(end, overlap_chars) == end

\* start = max(0, end - overlap_chars)
NextStart(end, overlap_chars) == IF end - overlap_chars > 0 THEN end - overlap_chars ELSE 0

\* out.append: the list is kept up to MaxPieces fragments, the part counter up
\* to MaxPieces
AppendOut(out, c) == IF Len(out) < MaxPieces THEN Append(out, c) ELSE out
NextPart(part) == Min(part + 1, MaxPieces)

----------------------------------------------------------------------------
(* Reranker and HybridRetriever *)

rerank(query, hits, top_k) ==
    LET rescored == [j \in 1..Len(hits) |->
                        RetrievalHit(predict(query, hits[j].chunk.text), hits[j].chunk)]
    IN  Take(SortByScoreDesc(rescored), top_k)

RECURSIVE DedupLoop(_, _)
DedupLoop(hits, seen) ==
    IF hits = <<>> THEN <<>>
    ELSE IF Head(hits).chunk.chunk_id \in seen
         THEN DedupLoop(Tail(hits), seen)
         ELSE <<Head(hits)>> \o DedupLoop(Tail(hits), seen \cup {Head(hits).chunk.chunk_id})

\* a dedup that keeps the last occurrence of a fragment id instead of the first
dedup_keep_last(hits) ==
    LET keep == {i \in 1..Len(hits) :
                    \A j \in (i + 1)..Len(hits) : hits[j].chunk.chunk_id /= hits[i].chunk.chunk_id}
    IN  ListOf(keep, [i \in 1..Len(hits) |-> i])
        \* positions kept, in order
dedup_last(hits) ==
    LET pos == dedup_keep_last(hits) IN [i \in 1..Len(pos) |-> hits[pos[i]]]

dedup(hits) == DedupLoop(hits, {})

\* a retrieve that sorts the fused list by score before cutting it
HybridRetriever_retrieve_sorted(query, top_k_bm25, top_k_vector, top_k_rerank) == LET b == search_bm25(query, top_k_bm25) v == search_vector(query, top_k_vector) IN IF b.raised \/ v.raised THEN Raised ELSE Ok(Take(SortByScoreDesc(dedup(b.hits \o v.hits)), top_k_rerank))

HybridRetriever_retrieve(query, top_k_bm25, top_k_vector, top_k_rerank) ==
    LET b == search_bm25(query, top_k_bm25)
        v == search_vector(query, top_k_vector)
    IN  IF b.raised \/ v.raised THEN Raised
        ELSE LET merged == dedup(b.hits \o v.hits)
             IN  IF reranker /\ merged /= <<>>
                 THEN Ok(rerank(query, merged, top_k_rerank))
                 ELSE Ok(Take(merged, top_k_rerank))

----------------------------------------------------------------------------
(* CodeGraph *)

\* An entity id f"{file_path}:{name}" is <<file_path, name>>, a module id
\* str(file_path) is <<file_path>>, the external wildcard f"*:{name}" is <<"*", name>>.
EntityId(file, name) == <<file, name>>
ExternalId(name) == <<"*", name>>
StartsWithStar(id) == Len(id) >= 2 /\ id[1] = "*"

CodeEntity(file, name, type, ls, le) ==
    [id |-> EntityId(file, name), name |-> name, entity_type |-> type,
     file_path |-> file, line_start |-> ls, line_end |-> le,
     docstring |-> "None", signature |-> "None"]

\* CodeGraph(): an empty DiGraph, no entities, no reverse index
EmptyGraph ==
    [none |-> FALSE, entities |-> <<>>, nodes |-> {}, edges |-> {},
     file_to_entities |-> <<>>]
NoGraph == [EmptyGraph EXCEPT !.none = TRUE]

\* the entities dict, kept in insertion order
EntityIds(g) == {g.entities[i].id : i \in 1..Len(g.entities)}
EntityOf(g, id) == g.entities[CHOOSE i \in 1..Len(g.entities) : g.entities[i].id = id]

DictSet(ents, e) ==
    IF \E i \in 1..Len(ents) : ents[i].id = e.id
    THEN [i \in 1..Len(ents) |-> IF ents[i].id = e.id THEN e ELSE ents[i]]
    ELSE Append(ents, e)

\* file_to_entities: a list of <<file_path, list of ids>> in insertion order
FileEntities(g, path) ==
    IF \E i \in 1..Len(g.file_to_entities) : g.file_to_entities[i][1] = path
    THEN g.file_to_entities[CHOOSE i \in 1..Len(g.file_to_entities) :
                                g.file_to_entities[i][1] = path][2]
    ELSE <<>>

AppendFileEntity(f2e, path, id) ==
    IF \E i \in 1..Len(f2e) : f2e[i][1] = path
    THEN [i \in 1..Len(f2e) |->
            IF f2e[i][1] = path THEN <<path, Append(f2e[i][2], id)>> ELSE f2e[i]]
    ELSE Append(f2e, <<path, <<id>>>>)

add_entity(g, e) ==
    [g EXCEPT !.entities = DictSet(@, e),
              !.nodes = @ \cup {e.id},
              !.file_to_entities = AppendFileEntity(@, e.file_path, e.id)]

\* DiGraph.add_edge(u, v, relation=r): one edge per ordered pair, the last
\* relation written stays
add_edge(g, u, v, r) ==
    [g EXCEPT !.nodes = @ \cup {u, v},
              !.edges = {x \in @ : ~(x[1] = u /\ x[2] = v)} \cup {<<u, v, r>>}]

RECURSIVE LoadEntities(_, _)
LoadEntities(g, ents) ==
    IF ents = <<>> THEN g ELSE LoadEntities(add_entity(g, Head(ents)), Tail(ents))

RECURSIVE LoadEdges(_, _)
LoadEdges(g, es) ==
    IF es = <<>> THEN g
    ELSE LoadEdges(add_edge(g, Head(es)[1], Head(es)[2], Head(es)[3]), Tail(es))

\* CodeGraph.load of a graph.json document
graph_load(g, doc) == LoadEdges(LoadEntities(g, doc.entities), doc.edges)

\* a save that writes the entities and leaves the edges out
graph_save_no_edges(g, es) ==
    [entities |-> [i \in 1..Len(g.entities) |-> g.entities[i]], edges |-> <<>>]

\* CodeGraph.save: the graph.json document, the entities in dict order under
\* their keys, the edges as (source, target, relation) in the order es
graph_save(g, es) ==
    [entities |-> [i \in 1..Len(g.entities) |-> g.entities[i]],
     edges |-> [i \in 1..Len(es) |-> <<es[i][1], es[i][2], es[i][3]>>]]

\* A Python file as build_from_files meets it: whether it can be read and
\* parsed, its number of lines, its function and class definitions in ast.walk
\* order (name, kind, lines, base names), and its calls (line, callee name).
SourceFile(path, stem, status, lines, defs, calls) ==
    [path |-> path, stem |-> stem, status |-> status, lines |-> lines, defs |-> defs,
     calls |-> calls]
Def(name, type, ls, le, bases) ==
    [name |-> name, type |-> type, line_start |-> ls, line_end |-> le, bases |-> bases]

ModuleId(file) == <<file.path>>

RECURSIVE AddBases(_, _, _)
AddBases(g, id, bases) ==
    IF bases = <<>> THEN g
    ELSE AddBases(add_edge(g, id, ExternalId(Head(bases)), "INHERITS"), id, Tail(bases))

RECURSIVE AddDefs(_, _, _)
AddDefs(g, file, defs) ==
    IF defs = <<>> THEN g
    ELSE LET d == Head(defs)
             e == CodeEntity(file.path, d.name, d.type, d.line_start, d.line_end)
             g1 == add_edge(add_entity(g, e), ModuleId(file), e.id, "DEFINES")
             g2 == IF d.type = "CLASS" THEN AddBases(g1, e.id, d.bases) ELSE g1
         IN  AddDefs(g2, file, Tail(defs))

\* _extract_entities: a syntax error returns at once, any other failure of the
\* read or the parse raises before anything is added
extract_entities(g, file) ==
    IF file.status = "unreadable" THEN [raised |-> TRUE, g |-> g]
    ELSE IF file.status = "syntax_error" THEN [raised |-> FALSE, g |-> g]
    ELSE LET module == [CodeEntity(file.path, file.stem, "MODULE", 1, file.lines)
                           EXCEPT !.id = ModuleId(file)]
         IN  [raised |-> FALSE, g |-> AddDefs(add_entity(g, module), file, file.defs)]

\* _get_enclosing_entity: the first definition in ast.walk order whose lines
\* hold the line, else the module
get_enclosing_entity(file, line) ==
    LET inside == {i \in 1..Len(file.defs) :
                      file.defs[i].line_start <= line /\ line <= file.defs[i].line_end}
    IN  IF inside = {} THEN ModuleId(file)
        ELSE EntityId(file.path,
                      file.defs[CHOOSE i \in inside : \A j \in inside : i <= j].name)

\* a resolution that takes the first entity of that name without looking at the
\* file of the call
resolve_entity_first_named(g, name, file) == LET named == {i \in 1..Len(g.entities) : g.entities[i].name = name} IN IF named = {} THEN ExternalId(name) ELSE g.entities[CHOOSE i \in named : \A j \in named : i <= j].id

\* _resolve_entity: the local entity of that name, else the first entity of that
\* name in dict order, else the external wildcard
resolve_entity(g, name, file) ==
    IF EntityId(file.path, name) \in EntityIds(g) THEN EntityId(file.path, name)
    ELSE LET named == {i \in 1..Len(g.entities) : g.entities[i].name = name}
         IN  IF named = {} THEN ExternalId(name)
             ELSE g.entities[CHOOSE i \in named : \A j \in named : i <= j].id

RECURSIVE AddCalls(_, _, _)
AddCalls(g, file, calls) ==
    IF calls = <<>> THEN g
    ELSE AddCalls(add_edge(g, get_enclosing_entity(file, Head(calls)[1]),
                           resolve_entity(g, Head(calls)[2], file), "CALLS"),
                  file, Tail(calls))

\* _extract_relationships
extract_relationships(g, file) ==
    IF file.status = "unreadable" THEN [raised |-> TRUE, g |-> g]
    ELSE IF file.status = "syntax_error" THEN [raised |-> FALSE, g |-> g]
    ELSE [raised |-> FALSE, g |-> AddCalls(g, file, file.calls)]

\* a phase that lets the exception of a file end the build
RECURSIVE PhaseAborting(_, _, _)
PhaseAborting(g, files, phase) ==
    IF files = <<>> THEN [raised |-> FALSE, g |-> g]
    ELSE LET r == IF phase = 1 THEN extract_entities(g, Head(files))
                  ELSE extract_relationships(g, Head(files))
         IN  IF r.raised THEN r ELSE PhaseAborting(r.g, Tail(files), phase)

\* one phase of build_from_files: every file in turn, a file that raises is
\* skipped
RECURSIVE Phase(_, _, _)
Phase(g, files, phase) ==
    IF files = <<>> THEN [raised |-> FALSE, g |-> g]
    ELSE LET r == IF phase = 1 THEN extract_entities(g, Head(files))
                  ELSE extract_relationships(g, Head(files))
         IN  Phase(r.g, Tail(files), phase)

\* build_from_files: the entities of all files, then their relationships
build_from_files(g, files) ==
    LET p1 == Phase(g, files, 1)
    IN  IF p1.raised THEN p1 ELSE Phase(p1.g, files, 2)

successors(g, n) == {x[2] : x \in {y \in g.edges : y[1] = n}}
predecessors(g, n) == {x[1] : x \in {y \in g.edges : y[2] = n}}

RECURSIVE RelatedLoop(_, _, _, _)
RelatedLoop(g, current_level, rel, hops) ==
    IF hops = 0 THEN rel
    ELSE LET next_level == UNION {successors(g, n) \cup predecessors(g, n) :
                                     n \in current_level}
             updated == rel \cup next_level
         IN  RelatedLoop(g, next_level \ updated, updated, hops - 1)

\* the ids get_related_entities returns; the list is in set-iteration order,
\* which the caller's order oracle fixes
get_related_entities(g, entity_id, max_hops) ==
    IF entity_id \notin g.nodes THEN {}
    ELSE {e \in RelatedLoop(g, {entity_id}, {}, max_hops) :
            e \in EntityIds(g) /\ ~StartsWithStar(e)}

get_callers(g, id) == {x[1] : x \in {y \in g.edges : y[2] = id /\ y[3] = "CALLS"}}
get_callees(g, id) == {x[2] : x \in {y \in g.edges : y[1] = id /\ y[3] = "CALLS"}}

Perms(S) == {p \in [1..Cardinality(S) -> S] : \A i, j \in DOMAIN p : i /= j => p[i] /= p[j]}

\* the last component of each id, c.split(':')[-1]
ShortNames(ids, ord) ==
    LET l == ListOf(ids, ord) IN [i \in 1..Len(l) |-> l[i][Len(l[i])]]

\* get_entity_context: the summary text, as its pieces; "" for an unknown id
get_entity_context(g, id, ord) ==
    IF id \notin EntityIds(g) THEN <<>>
    ELSE LET e == EntityOf(g, id)
         IN  <<"[", e.entity_type, "]", e.name, "File:", e.file_path,
               ToString(e.line_start), "-", ToString(e.line_end)>>
             \o (IF e.signature /= "None" THEN <<"Signature:", e.signature>> ELSE <<>>)
             \o (IF e.docstring /= "None" THEN <<"Docstring:", e.docstring>> ELSE <<>>)
             \o (IF get_callers(g, id) /= {}
                 THEN <<"Called by:">> \o ShortNames(get_callers(g, id), ord) ELSE <<>>)
             \o (IF get_callees(g, id) /= {}
                 THEN <<"Calls:">> \o ShortNames(get_callees(g, id), ord) ELSE <<>>)

----------------------------------------------------------------------------
(* GraphEnhancedRetriever *)

max_expansion_hops == 2
DefaultMaxExpanded == 4

RECURSIVE OverlapFilter(_, _, _)
OverlapFilter(g, ids, chunk) ==
    IF ids = <<>> THEN <<>>
    ELSE LET id == Head(ids)
             rest == OverlapFilter(g, Tail(ids), chunk)
         IN  IF id \in EntityIds(g)
                /\ EntityOf(g, id).line_start <= chunk.meta.end_line
                /\ EntityOf(g, id).line_end >= chunk.meta.start_line
             THEN <<id>> \o rest
             ELSE rest

chunk_to_entities(g, chunk) ==
    IF g.none THEN <<>>
    ELSE OverlapFilter(g, FileEntities(g, chunk.meta.path), chunk)

ExpansionChunk(g, related_id, entity_id, ord) ==
    LET e == EntityOf(g, related_id)
    IN  [chunk_id |-> <<"graph">> \o related_id,
         text |-> get_entity_context(g, related_id, ord),
         meta |-> [type |-> "graph_expansion", path |-> e.file_path,
                   start_line |-> e.line_start, end_line |-> e.line_end,
                   source_entity |-> entity_id]]

\* an expansion scored like its base hit, the discount forgotten
ExpansionScoreUndiscounted(score) == score

\* hit.score * 0.8
ExpansionScore(score) == (score * 4) \div 5

\* the loop over related[:max_expanded]; st = [expanded, seen]
RECURSIVE ExpandRelated(_, _, _, _, _, _)
ExpandRelated(g, rel, entity_id, hit, st, ord) ==
    IF rel = <<>> THEN st
    ELSE LET related_id == Head(rel)
         IN  IF related_id \in st.seen
             THEN ExpandRelated(g, Tail(rel), entity_id, hit, st, ord)
             ELSE LET seen2 == st.seen \cup {related_id}
                      made == get_entity_context(g, related_id, ord) /= <<>>
                              /\ related_id \in EntityIds(g)
                      exp2 == IF made
                              THEN Append(st.expanded,
                                     RetrievalHit(ExpansionScore(hit.score),
                                                  ExpansionChunk(g, related_id, entity_id, ord)))
                              ELSE st.expanded
                  IN  ExpandRelated(g, Tail(rel), entity_id, hit,
                                    [expanded |-> exp2, seen |-> seen2], ord)

\* a loop over the entities of one hit that traverses an entity again although it
\* was visited before
RECURSIVE ExpandEntities_revisiting(_, _, _, _, _)
ExpandEntities_revisiting(g, entity_ids, hit, st, ord) == IF entity_ids = <<>> THEN st ELSE ExpandEntities_revisiting(g, Tail(entity_ids), hit, ExpandRelated(g, Take(ListOf(get_related_entities(g, Head(entity_ids), max_expansion_hops), ord), max_expanded), Head(entity_ids), hit, [st EXCEPT !.seen = @ \cup {Head(entity_ids)}], ord), ord)

\* a loop over the entities of one hit that expands all the related entities of a
\* seed, whatever max_expanded is
RECURSIVE ExpandEntities_uncapped(_, _, _, _, _)
ExpandEntities_uncapped(g, entity_ids, hit, st, ord) == IF entity_ids = <<>> THEN st ELSE IF Head(entity_ids) \in st.seen THEN ExpandEntities_uncapped(g, Tail(entity_ids), hit, st, ord) ELSE ExpandEntities_uncapped(g, Tail(entity_ids), hit, ExpandRelated(g, ListOf(get_related_entities(g, Head(entity_ids), max_expansion_hops), ord), Head(entity_ids), hit, [st EXCEPT !.seen = @ \cup {Head(entity_ids)}], ord), ord)

\* the loop over the entities of one hit
RECURSIVE ExpandEntities(_, _, _, _, _)
ExpandEntities(g, entity_ids, hit, st, ord) ==
    IF entity_ids = <<>> THEN st
    ELSE LET entity_id == Head(entity_ids)
         IN  IF entity_id \in st.seen
             THEN ExpandEntities(g, Tail(entity_ids), hit, st, ord)
             ELSE LET rel == ListOf(get_related_entities(g, entity_id, max_expansion_hops), ord)
                      st2 == ExpandRelated(g, Take(rel, max_expanded), entity_id, hit,
                                           [st EXCEPT !.seen = @ \cup {entity_id}], ord)
                  IN  ExpandEntities(g, Tail(entity_ids), hit, st2, ord)

\* the loop over the base hits
RECURSIVE ExpandHits(_, _, _, _)
ExpandHits(g, hits, st, ord) ==
    IF hits = <<>> THEN st
    ELSE ExpandHits(g, Tail(hits),
                    ExpandEntities(g, chunk_to_entities(g, Head(hits).chunk),
                                   Head(hits), st, ord),
                    ord)

expand_with_graph(g, base_hits, ord) ==
    ExpandHits(g, base_hits, [expanded |-> <<>>, seen |-> {}], ord).expanded

\* a merge that appends the expansions and leaves the list unsorted
graph_merge_hits_unsorted(base_hits, expanded_hits) == base_hits \o DedupLoop(expanded_hits, {base_hits[i].chunk.chunk_id : i \in 1..Len(base_hits)})

graph_merge_hits(base_hits, expanded_hits) ==
    LET seen_ids == {base_hits[i].chunk.chunk_id : i \in 1..Len(base_hits)}
    IN  SortByScoreDesc(base_hits \o DedupLoop(expanded_hits, seen_ids))

\* retrieve without the early return for a missing graph: the base hits always go
\* through the merge and its sort
GraphEnhancedRetriever_retrieve_always_merging(query, kb, kv, top_k_rerank, ord) ==
    LET base == HybridRetriever_retrieve(query, kb, kv, top_k_rerank)
    IN  IF base.raised THEN Raised
        ELSE Ok(Take(graph_merge_hits(base.hits,
                                      expand_with_graph(code_graph, base.hits, ord)),
                     top_k_rerank))

GraphEnhancedRetriever_retrieve(query, top_k_bm25, top_k_vector, top_k_rerank, ord) ==
    LET base == HybridRetriever_retrieve(query, top_k_bm25, top_k_vector, top_k_rerank)
    IN  IF base.raised THEN Raised
        ELSE IF code_graph.none \/ base.hits = <<>> THEN base
        ELSE Ok(Take(graph_merge_hits(base.hits,
                                      expand_with_graph(code_graph, base.hits, ord)),
                     top_k_rerank))

----------------------------------------------------------------------------
(* Orchestrator *)

\* IntentClassifier. The keyword table is modelled by short stand-ins over the
\* letters c, m, d, o that keep what matters in it: a keyword matches as a
\* substring of the lower-cased query, an intent has several keywords, and a
\* keyword of one intent can lie inside or across keywords of another.
Intents == {"CODE", "DATA", "DOCS", "MATH", "GENERAL"}

INTENT_KEYWORDS ==
    [intent \in Intents \ {"GENERAL"} |->
        CASE intent = "CODE" -> {<<"c">>, <<"c", "c">>}
          [] intent = "DATA" -> {<<"d">>}
          [] intent = "DOCS" -> {<<"o">>, <<"d", "o">>}
          [] intent = "MATH" -> {<<"m">>, <<"c", "m">>}]

\* str.lower on the letters of the classifier's queries
LowerChar(c) == IF c = "C" THEN "c" ELSE c
Lower(text) == [i \in 1..Len(text) |-> LowerChar(text[i])]

\* keyword in query_lower
IsSubstring(kw, text) ==
    \E i \in 0..(Len(text) - Len(kw)) : \A j \in 1..Len(kw) : text[i + j] = kw[j]

intent_scores(query) ==
    [intent \in Intents |->
        IF intent = "GENERAL" THEN 0
        ELSE Cardinality({kw \in INTENT_KEYWORDS[intent] : IsSubstring(kw, Lower(query))})]

\* the intents in the order the enum declares them
priority_declaration_order == <<"CODE", "DATA", "DOCS", "MATH">>

\* priority = [CODE, MATH, DATA, DOCS]
priority == <<"CODE", "MATH", "DATA", "DOCS">>

Max(S) == CHOOSE x \in S : \A y \in S : y <= x

classify(query) ==
    LET scores == intent_scores(query)
        max_score == Max({scores[intent] : intent \in Intents})
    IN  IF max_score = 0 THEN "GENERAL"
        ELSE LET hits == {i \in 1..Len(priority) : scores[priority[i]] = max_score}
             IN  IF hits = {} THEN "GENERAL"
                 ELSE priority[CHOOSE i \in hits : \A j \in hits : i <= j]

\* the queries the classifier is given
ClassifierChars == {"c", "C", "m", "d", "o", " "}
ClassifierQueries == UNION {[1..n -> ClassifierChars] : n \in 0..MaxQueryLen}

\* A response of the language model, by what the orchestrator reads in it:
\* whether it holds a refusal phrase, whether it cites a source, its words, and
\* the identifier-like tokens the refinement pattern finds in it, in order.
Response(refusal, citations, terms, patterns) ==
    [refusal |-> refusal, citations |-> citations, terms |-> terms, patterns |-> patterns]

Responses ==
    { Response(FALSE, TRUE, {<<"b">>}, <<>>),
      Response(TRUE, FALSE, {}, <<>>),
      Response(FALSE, FALSE, {}, <<<<"a", "_", "b">>>>),
      Response(FALSE, TRUE, {}, <<>>) }

\* f"Error invoking LLM: {e}"
ErrorResponse == Response(FALSE, FALSE, {}, <<>>)

\* what one _invoke_llm call can come to: an answer of the model, the error text
\* (invoke raised, the LLM has no predict), or an exception (predict raised too)
InvokeOutcomes ==
    {[raised |-> FALSE, response |-> r] : r \in Responses \cup {ErrorResponse}}
        \cup {[raised |-> TRUE, response |-> ErrorResponse]}

\* the LLM object, by whether it has a predict method
NoLLM == [none |-> TRUE, has_predict |-> FALSE]
LLM(has_predict) == [none |-> FALSE, has_predict |-> has_predict]

\* what one call of llm.invoke or llm.predict can come to: an answer, or an
\* exception
LLMCalls ==
    {[raised |-> FALSE, response |-> r] : r \in Responses}
        \cup {[raised |-> TRUE, response |-> ErrorResponse]}

\* what the predict call can come to; it is made only after invoke raised, on an
\* LLM that has predict
PredictCalls(l, invoked) ==
    IF invoked.raised /\ l.has_predict THEN LLMCalls ELSE {invoked}

\* _invoke_llm: the answer of invoke; when invoke raises, whatever predict does
\* if the LLM has a predict method, else the error text
invoke_llm(l, invoked, predicted) ==
    IF ~invoked.raised THEN invoked
    ELSE IF l.has_predict THEN predicted
    ELSE [raised |-> FALSE, response |-> ErrorResponse]

\* a confidence is the fraction num/den, or None
Fraction(n, d) == [none |-> FALSE, num |-> n, den |-> d]
NoConfidence == [none |-> TRUE, num |-> 0, den |-> 1]
BelowHalf(c) == 2 * c.num < c.den

stop_words ==
    { <<"t", "h", "e">>, <<"a">>, <<"a", "n">>, <<"i", "s">>, <<"a", "r", "e">>,
      <<"w", "a", "s">>, <<"h", "o", "w">>, <<"w", "h", "a", "t">>,
      <<"w", "h", "e", "r", "e">>, <<"w", "h", "e", "n">> }

\* a scoring that adds the whole overlap to the citation score and does not clamp
estimate_confidence_unclamped(response, question) ==
    IF response.refusal THEN Fraction(3, 10)
    ELSE LET question_terms == Range(tokenize(question)) \ stop_words
             m == Cardinality(question_terms)
             k == Cardinality(question_terms \cap response.terms)
             cit == IF response.citations THEN 3 ELSE 0
         IN  IF m > 0
             THEN Fraction(cit * m + 10 * k, 10 * m)
             ELSE Fraction(2 * cit + 10, 20)

\* a scoring without the early return for a refusal phrase
estimate_confidence_no_refusal(response, question) ==
    LET question_terms == Range(tokenize(question)) \ stop_words
        m == Cardinality(question_terms)
        k == Cardinality(question_terms \cap response.terms)
        cit == IF response.citations THEN 3 ELSE 0
    IN  IF m > 0
        THEN Fraction(Min(10 * m, cit * m + 7 * k), 10 * m)
        ELSE Fraction(Min(20, 2 * cit + 7), 20)

\* _estimate_confidence
estimate_confidence(response, question) ==
    IF response.refusal THEN Fraction(3, 10)
    ELSE LET question_terms == Range(tokenize(question)) \ stop_words
             m == Cardinality(question_terms)
             k == Cardinality(question_terms \cap response.terms)
             cit == IF response.citations THEN 3 ELSE 0
         IN  IF m > 0
             THEN Fraction(Min(10 * m, cit * m + 7 * k), 10 * m)
             ELSE Fraction(Min(20, 2 * cit + 7), 20)

\* the answers _estimate_confidence is given, by what it reads in them
ScoredResponses ==
    {Response(refusal, citations, terms, <<>>) :
        refusal \in BOOLEAN, citations \in BOOLEAN,
        terms \in SUBSET {<<"a">>, <<"b">>, <<"a", "_", "b">>}}

\* the questions it is given: those of the retrieval, a question of stop words
\* only, a question with a stop word and a term
ScoredQuestions == Queries \cup {<<"a">>, <<"a", " ", "b">>}

refine_query(original_query, current_response) ==
    IF current_response.patterns /= <<>>
    THEN original_query \o <<" ">> \o current_response.patterns[1]
    ELSE original_query

\* a merge that concatenates and removes nothing
orch_merge_hits_concat(hits1, hits2) == hits1 \o hits2

\* the hit lists _merge_hits is given: any fragments, any scores, repeats allowed
MergedScores == {0, 5}
MergedChunks == {c \in ChunkPool : c.meta.path = "f.py"}
HitLists ==
    UNION { [1..n -> {RetrievalHit(sc, c) : sc \in MergedScores, c \in MergedChunks}] :
              n \in 0..MaxHits }

\* Orchestrator._merge_hits
orch_merge_hits(hits1, hits2) ==
    hits1 \o DedupLoop(hits2, {hits1[i].chunk.chunk_id : i \in 1..Len(hits1)})

\* the context string, by its blocks: source number, citation, text
format_context(hits, max_chunks) ==
    LET shown == Take(hits, max_chunks)
    IN  [i \in 1..Len(shown) |->
            [source |-> i, path |-> shown[i].chunk.meta.path,
             start_line |-> shown[i].chunk.meta.start_line,
             end_line |-> shown[i].chunk.meta.end_line,
             text |-> shown[i].chunk.text]]

\* a refinement loop that retries while the confidence stays low
AfterRegenerationRetry(confidence) ==
    IF BelowHalf(confidence) THEN "INITIAL_RETRIEVAL" ELSE "DONE"

\* after the regenerated answer is scored the query goes on to its end
AfterRegeneration(confidence) == "DONE"

\* a threshold test turned around
LowConfidenceInverted(confidence) == ~BelowHalf(confidence)

\* confidence < 0.5
LowConfidence(confidence) == BelowHalf(confidence)

\* a query that goes on to the language model whatever the retrieval returned
NotHitsNever(hits) == FALSE

\* if not hits
NotHits(hits) == hits = <<>>

\* the SafetyAgent: its audit log, one entry per line of audit.log (the
\* timestamp of an entry is left out)
NoSafety == [none |-> TRUE, audit_log |-> <<>>]
SafetyAgent == [none |-> FALSE, audit_log |-> <<>>]

QueryLimit == 500        \* log_query keeps query[:500]

AuditEntry(operation, query, status, details) ==
    [operation |-> operation, query |-> query, status |-> status, details |-> details]

\* _write_audit: the entry is appended to the log
write_audit(s, entry) == [s EXCEPT !.audit_log = Append(@, entry)]

\* log_query(query, response_preview); a response stands for its first 100
\* characters
log_query(s, query, response_preview) ==
    write_audit(s, AuditEntry("QUERY", Take(query, QueryLimit), "SUCCESS", response_preview))

\* step 6 of Orchestrator.query: if self.safety: self.safety.log_query(...)
audit(s, question, response) ==
    IF s.none THEN s ELSE log_query(s, question, response)

NoLocals ==
    [hits |-> <<>>, hits2 |-> <<>>, response |-> ErrorResponse,
     confidence |-> NoConfidence, context |-> <<>>, output |-> "none"]
NoTrace == [n_retrieve |-> 0, n_generate |-> 0, first_confidence |-> NoConfidence]
NoArgs == [question |-> <<>>, kb |-> 0, kv |-> 0, kr |-> 0, max_context_chunks |-> 0,
           enable_self_correction |-> FALSE]

----------------------------------------------------------------------------
(* Operations *)

NoEntity == <<>>
NoCall == [op |-> "none", query |-> <<>>, kb |-> 0, kv |-> 0, kr |-> 0,
           entity |-> NoEntity, hops |-> 0, response |-> ErrorResponse,
           hits1 |-> <<>>, hits2 |-> <<>>, files |-> <<>>]

RECURSIVE SetToSeq(_)
SetToSeq(S) ==
    IF S = {} THEN <<>>
    ELSE LET x == CHOOSE y \in S : TRUE IN <<x>> \o SetToSeq(S \ {x})

Foo == CodeEntity("f.py", "foo", "FUNCTION", 1, 2)
Bar == CodeEntity("f.py", "bar", "FUNCTION", 3, 4)
Baz == CodeEntity("g.py", "baz", "CLASS", 1, 1)

CandidateEdges ==
    { <<Foo.id, Bar.id, "CALLS">>, <<Bar.id, Baz.id, "CALLS">>,
      <<Baz.id, ExternalId("Base"), "INHERITS">>,
      <<Foo.id, ExternalId("Base"), "CALLS">> }

\* the graph.json documents a load can read
GraphDocs ==
    { [entities |-> ents, edges |-> SetToSeq(es)] :
        ents \in {<<Foo, Bar, Baz>>, <<Bar, Foo>>}, es \in SUBSET CandidateEdges }

\* the documents of the retrieval runs: foo, bar, baz and the calls between them
ExpandDocs ==
    { [entities |-> <<Foo, Bar, Baz>>, edges |-> SetToSeq(es)] :
        es \in SUBSET {<<Foo.id, Bar.id, "CALLS">>, <<Bar.id, Baz.id, "CALLS">>} }

\* the files of the graph builds: f.py (foo calls bar, bar calls baz), g.py
\* (class baz(Base)), d.py (foo defined twice, the second calls bar), a file
\* with a syntax error, a file that cannot be read
FileF ==
    SourceFile("f.py", "f", "ok", 4,
               <<Def("foo", "FUNCTION", 1, 2, <<>>), Def("bar", "FUNCTION", 3, 4, <<>>)>>,
               <<<<1, "bar">>, <<3, "baz">>>>)
FileG == SourceFile("g.py", "g", "ok", 1, <<Def("baz", "CLASS", 1, 1, <<"Base">>)>>, <<>>)
FileD ==
    SourceFile("d.py", "d", "ok", 4,
               <<Def("foo", "FUNCTION", 1, 2, <<>>), Def("foo", "FUNCTION", 3, 4, <<>>)>>,
               <<<<3, "bar">>>>)
FileSyntaxError == SourceFile("h.py", "h", "syntax_error", 1, <<>>, <<>>)
FileUnreadable == SourceFile("u.py", "u", "unreadable", 0, <<>>, <<>>)
\* m.py: def run() at lines 1-2 and the module-level call run() at line 3
FileM == SourceFile("m.py", "m", "ok", 3, <<Def("run", "FUNCTION", 1, 2, <<>>)>>, <<<<3, "run">>>>)
FilePool == {FileF, FileG, FileD, FileM, FileSyntaxError, FileUnreadable}

\* the lists of distinct files a build is given
FileLists ==
    UNION { {fs \in [1..n -> FilePool] : \A i, j \in 1..n : i /= j => fs[i] /= fs[j]} :
              n \in 0..MaxFiles }

\* the names a call can carry: defined names, a module's stem, an unknown name
ResolvedNames == {"foo", "bar", "baz", "f", "qux"}

NodeIds == {Foo.id, Bar.id, Baz.id, ExternalId("Base")}
HopValues == 0..max_expansion_hops

Init ==
    /\ disk = EmptyDir
    /\ chunks = <<>>
    /\ bm25 = NoneValue
    /\ faiss_index = NoneValue
    /\ reranker \in BOOLEAN
    /\ code_graph = NoGraph
    /\ max_expanded = DefaultMaxExpanded
    /\ call = NoCall
    /\ result = Ok(<<>>)
    /\ related = {}
    /\ pc = "idle"
    /\ args = NoArgs
    /\ locals = NoLocals
    /\ trace = NoTrace
    /\ llm = NoLLM
    /\ safety = NoSafety
    /\ saving = NotSaving(0)
    /\ splitting = NotSplitting

\* build_index: a new index is built from cs and saved into the index directory
BuildIndex(cs) ==
    /\ call = NoCall
    /\ ~disk.chunks.exists
    /\ disk' = SavedIndex(cs)
    /\ UNCHANGED <<chunks, bm25, faiss_index, reranker, splitting, saving, graphVars, callVars,
                   orchVars>>

\* a serving process opens the index: IndexStore(...) followed by load()
LoadIndex ==
    /\ call = NoCall
    /\ pc = "idle"
    /\ faiss_index' = load_faiss(disk, NoneValue)
    /\ chunks' = load_chunks(disk)
    /\ bm25' = load_bm25(disk, NoneValue)
    /\ UNCHANGED <<disk, reranker, splitting, saving, graphVars, callVars, orchVars>>

\* build_index, its save taken file by file: store.build(cs), then the vector
\* index is written
SaveFaiss(cs) ==
    /\ call = NoCall
    /\ saving.step = "idle"
    /\ saving.builds < MaxBuilds
    /\ disk' = [disk EXCEPT !.faiss = SavedIndex(cs).faiss]
    /\ saving' = [step |-> "faiss_written", cs |-> cs, builds |-> saving.builds + 1]
    /\ UNCHANGED <<chunks, bm25, faiss_index, reranker, splitting, graphVars, callVars, orchVars>>

\* the fragment file is written
SaveChunks ==
    /\ saving.step = "faiss_written"
    /\ disk' = [disk EXCEPT !.chunks = SavedIndex(saving.cs).chunks]
    /\ saving' = [saving EXCEPT !.step = "chunks_written"]
    /\ UNCHANGED <<chunks, bm25, faiss_index, reranker, splitting, graphVars, callVars, orchVars>>

\* the lexical corpus is written; save returns
SaveBm25 ==
    /\ saving.step = "chunks_written"
    /\ disk' = [disk EXCEPT !.bm25 = SavedIndex(saving.cs).bm25]
    /\ saving' = NotSaving(saving.builds)
    /\ UNCHANGED <<chunks, bm25, faiss_index, reranker, splitting, graphVars, callVars, orchVars>>

\* CodeGraph() followed by load(graph.json), wrapped by a GraphEnhancedRetriever
AttachGraph(doc, me) ==
    /\ call = NoCall
    /\ code_graph.none
    /\ code_graph' = graph_load(EmptyGraph, doc)
    /\ max_expanded' = me
    /\ UNCHANGED <<storeVars, callVars, orchVars>>

\* a lexical search that keeps in the store only the k fragments it looked at
SearchBm25Truncating(q, k) ==
    /\ call = NoCall
    /\ call' = [NoCall EXCEPT !.op = "search_bm25", !.query = q, !.kb = k]
    /\ result' = search_bm25(q, k)
    /\ chunks' = Take(chunks, k)
    /\ UNCHANGED <<disk, bm25, faiss_index, reranker, splitting, saving, graphVars, related, orchVars>>

SearchBm25(q, k) ==
    /\ call = NoCall
    /\ call' = [NoCall EXCEPT !.op = "search_bm25", !.query = q, !.kb = k]
    /\ result' = search_bm25(q, k)
    /\ UNCHANGED <<storeVars, graphVars, related, orchVars>>

SearchVector(q, k) ==
    /\ call = NoCall
    /\ call' = [NoCall EXCEPT !.op = "search_vector", !.query = q, !.kv = k]
    /\ result' = search_vector(q, k)
    /\ UNCHANGED <<storeVars, graphVars, related, orchVars>>

Retrieve(q, kb, kv, kr) ==
    /\ call = NoCall
    /\ call' = [NoCall EXCEPT !.op = "retrieve", !.query = q, !.kb = kb, !.kv = kv, !.kr = kr]
    /\ result' = HybridRetriever_retrieve(q, kb, kv, kr)
    /\ UNCHANGED <<storeVars, graphVars, related, orchVars>>

GraphRetrieve(q, kb, kv, kr, ord) ==
    /\ call = NoCall
    /\ call' = [NoCall EXCEPT !.op = "graph_retrieve", !.query = q, !.kb = kb, !.kv = kv,
                              !.kr = kr]
    /\ result' = GraphEnhancedRetriever_retrieve(q, kb, kv, kr, ord)
    /\ UNCHANGED <<storeVars, graphVars, related, orchVars>>

GetRelated(e, hops) ==
    /\ call = NoCall
    /\ ~code_graph.none
    /\ call' = [NoCall EXCEPT !.op = "get_related_entities", !.entity = e, !.hops = hops]
    /\ related' = get_related_entities(code_graph, e, hops)
    /\ UNCHANGED <<storeVars, graphVars, result, orchVars>>

\* the caller takes the result; the next call can start
Return ==
    /\ call /= NoCall
    /\ call' = NoCall
    /\ result' = Ok(<<>>)
    /\ related' = {}
    /\ UNCHANGED <<storeVars, graphVars, orchVars>>

\* Orchestrator(llm, retriever): the orchestrator is constructed around an LLM
\* and, with safety_agent given, a SafetyAgent whose audit log is still empty
NewOrchestrator(has_predict, safety_agent) ==
    /\ call = NoCall
    /\ llm.none
    /\ llm' = LLM(has_predict)
    /\ safety' = IF safety_agent THEN SafetyAgent ELSE NoSafety
    /\ UNCHANGED <<storeVars, graphVars, callVars, pc, args, locals, trace>>

\* Orchestrator.query up to its first language-model call: the retrieval, the
\* answer for an empty retrieval, the first context
QueryStart(question, kb, kv, kr, mc, esc) ==
    /\ call = NoCall
    /\ ~llm.none
    /\ pc = "idle"
    /\ Len(safety.audit_log) < MaxAudit
    /\ args' = [question |-> question, kb |-> kb, kv |-> kv, kr |-> kr,
                max_context_chunks |-> mc, enable_self_correction |-> esc]
    /\ LET r == HybridRetriever_retrieve(question, kb, kv, kr)
       IN  /\ trace' = [NoTrace EXCEPT !.n_retrieve = 1]
           /\ IF r.raised
              THEN pc' = "RAISED" /\ locals' = NoLocals
              ELSE IF NotHits(r.hits)
              THEN pc' = "DONE" /\ locals' = [NoLocals EXCEPT !.output = "not_found"]
              ELSE /\ pc' = "INITIAL_RETRIEVAL"
                   /\ locals' = [NoLocals EXCEPT !.hits = r.hits,
                                                 !.context = format_context(r.hits, mc)]
    /\ UNCHANGED <<storeVars, graphVars, callVars, llm, safety>>

\* the first answer arrives; the query runs on to its end or to the second
\* language-model call
FirstAnswer(out) ==
    /\ pc = "INITIAL_RETRIEVAL"
    /\ IF out.raised
       THEN /\ pc' = "RAISED"
            /\ trace' = [trace EXCEPT !.n_generate = @ + 1]
            /\ UNCHANGED locals
       ELSE IF ~args.enable_self_correction
       THEN /\ pc' = "DONE"
            /\ trace' = [trace EXCEPT !.n_generate = @ + 1]
            /\ locals' = [locals EXCEPT !.response = out.response,
                                        !.confidence = NoConfidence,
                                        !.output = "answer"]
       ELSE LET confidence == estimate_confidence(out.response, args.question)
            IN  IF LowConfidence(confidence)
                THEN LET refined_query == refine_query(args.question, out.response)
                         r2 == HybridRetriever_retrieve(refined_query, args.kb, args.kv,
                                                        args.kr)
                     IN  /\ trace' = [trace EXCEPT !.n_generate = @ + 1,
                                                   !.n_retrieve = @ + 1,
                                                   !.first_confidence = confidence]
                         /\ IF r2.raised
                            THEN pc' = "RAISED" /\ UNCHANGED locals
                            ELSE IF r2.hits /= <<>>
                            THEN /\ pc' = "REFINED_RETRIEVAL"
                                 /\ locals' =
                                      [locals EXCEPT
                                         !.response = out.response,
                                         !.confidence = confidence,
                                         !.hits2 = r2.hits,
                                         !.context = format_context(
                                             orch_merge_hits(locals.hits, r2.hits),
                                             args.max_context_chunks)]
                            ELSE /\ pc' = "DONE"
                                 /\ locals' = [locals EXCEPT !.response = out.response,
                                                             !.confidence = confidence,
                                                             !.output = "answer"]
                ELSE /\ pc' = "DONE"
                     /\ trace' = [trace EXCEPT !.n_generate = @ + 1,
                                               !.first_confidence = confidence]
                     /\ locals' = [locals EXCEPT !.response = out.response,
                                                 !.confidence = confidence,
                                                 !.output = "answer"]
    /\ safety' = IF pc' = "DONE" THEN audit(safety, args.question, out.response)
                 ELSE safety
    /\ UNCHANGED <<storeVars, graphVars, callVars, args, llm>>

\* the regenerated answer arrives and is scored
RefinedAnswer(out) ==
    /\ pc = "REFINED_RETRIEVAL"
    /\ trace' = [trace EXCEPT !.n_generate = @ + 1]
    /\ IF out.raised
       THEN pc' = "RAISED" /\ UNCHANGED locals
       ELSE LET confidence == estimate_confidence(out.response, args.question)
            IN  /\ pc' = AfterRegeneration(confidence)
                /\ locals' = [locals EXCEPT !.response = out.response,
                                            !.confidence = confidence,
                                            !.output = "answer"]
    /\ safety' = IF pc' = "DONE" THEN audit(safety, args.question, out.response)
                 ELSE safety
    /\ UNCHANGED <<storeVars, graphVars, callVars, args, llm>>

\* Orchestrator.query has returned or raised; its locals are gone
QueryReturn ==
    /\ pc \in {"DONE", "RAISED"}
    /\ pc' = "idle"
    /\ args' = NoArgs
    /\ locals' = NoLocals
    /\ trace' = NoTrace
    /\ UNCHANGED <<storeVars, graphVars, callVars, llm, safety>>

\* split_long_chunks(cs, max_chars, overlap_chars) is called
SplitCall(cs, max_chars, overlap_chars) ==
    /\ splitting.pc = "idle"
    /\ splitting' = [NotSplitting EXCEPT !.pc = "for", !.chunks = cs,
                                         !.max_chars = max_chars,
                                         !.overlap_chars = overlap_chars]
    /\ UNCHANGED <<disk, chunks, bm25, faiss_index, reranker, saving, graphVars, callVars,
                   orchVars>>

\* one turn of the for loop: the function returns, a short fragment is kept as
\* it is, or the while loop is entered for a long one
SplitFor ==
    /\ splitting.pc = "for"
    /\ IF splitting.chunks = <<>>
       THEN splitting' = [splitting EXCEPT !.pc = "returned"]
       ELSE LET ch == Head(splitting.chunks)
            IN  IF Len(ch.text) <= splitting.max_chars
                THEN splitting' = [splitting EXCEPT !.out = AppendOut(@, ch),
                                                    !.chunks = Tail(@)]
                ELSE splitting' = [splitting EXCEPT !.pc = "while", !.start = 0,
                                                    !.part = 0]
    /\ UNCHANGED <<disk, chunks, bm25, faiss_index, reranker, saving, graphVars, callVars,
                   orchVars>>

\* one iteration of the while loop
SplitWhile ==
    /\ splitting.pc = "while"
    /\ LET ch == Head(splitting.chunks)
           text == ch.text
           start == splitting.start
       IN  IF ~(start < Len(text))
           THEN splitting' = [splitting EXCEPT !.pc = "for", !.chunks = Tail(@)]
           ELSE LET end == Min(Len(text), start + splitting.max_chars)
                    part == NextPart(splitting.part)
                    out == AppendOut(splitting.out, Piece(ch, part, start, end))
                    next == NextStart(end, splitting.overlap_chars)
                IN  IF end = Len(text)
                    THEN splitting' = [splitting EXCEPT !.pc = "for", !.chunks = Tail(@),
                                                        !.part = part, !.out = out,
                                                        !.start = next]
                    ELSE splitting' = [splitting EXCEPT !.part = part, !.out = out,
                                                        !.start = next]
    /\ UNCHANGED <<disk, chunks, bm25, faiss_index, reranker, saving, graphVars, callVars,
                   orchVars>>

\* the caller has taken the list
SplitReturn ==
    /\ splitting.pc = "returned"
    /\ splitting' = NotSplitting
    /\ UNCHANGED <<disk, chunks, bm25, faiss_index, reranker, saving, graphVars, callVars,
                   orchVars>>

\* CodeGraph() followed by build_from_files(files)
BuildGraph(files) ==
    /\ call = NoCall
    /\ code_graph.none
    /\ call' = [NoCall EXCEPT !.op = "build_from_files", !.files = files]
    /\ LET r == build_from_files(EmptyGraph, files)
       IN  /\ code_graph' = r.g
           /\ result' = [raised |-> r.raised, hits |-> <<>>]
    /\ UNCHANGED <<storeVars, max_expanded, related, orchVars>>

\* CodeGraph.save of the graph, then CodeGraph().load of the document
GraphSaveLoad ==
    /\ call = NoCall
    /\ ~code_graph.none
    /\ call' = [NoCall EXCEPT !.op = "graph_save_load"]
    /\ result' = graph_load(EmptyGraph, graph_save(code_graph, SetToSeq(code_graph.edges)))
    /\ UNCHANGED <<storeVars, graphVars, related, orchVars>>

\* CodeGraph._resolve_entity(name, context_file) on the graph as built
ResolveEntity(name, file) ==
    /\ call = NoCall
    /\ ~code_graph.none
    /\ call' = [NoCall EXCEPT !.op = "resolve_entity", !.query = <<name>>, !.files = <<file>>]
    /\ related' = {resolve_entity(code_graph, name, file)}
    /\ UNCHANGED <<storeVars, graphVars, result, orchVars>>

\* Orchestrator._merge_hits on two hit lists
MergeHits(hits1, hits2) ==
    /\ call = NoCall
    /\ call' = [NoCall EXCEPT !.op = "merge_hits", !.hits1 = hits1, !.hits2 = hits2]
    /\ result' = Ok(orch_merge_hits(hits1, hits2))
    /\ UNCHANGED <<storeVars, graphVars, related, orchVars>>

\* IntentClassifier.classify on a query
Classify(query) ==
    /\ call = NoCall
    /\ call' = [NoCall EXCEPT !.op = "classify", !.query = query]
    /\ result' = classify(query)
    /\ UNCHANGED <<storeVars, graphVars, related, orchVars>>

\* Orchestrator._estimate_confidence on an answer and a question
EstimateConfidence(response, question) ==
    /\ call = NoCall
    /\ call' = [NoCall EXCEPT !.op = "estimate_confidence", !.query = question,
                              !.response = response]
    /\ result' = estimate_confidence(response, question)
    /\ UNCHANGED <<storeVars, graphVars, related, orchVars>>

\* the fragment store, the fusion retriever and a graph-less wrapper around it
Next ==
    \/ \E cs \in ChunkLists : BuildIndex(cs)
    \/ LoadIndex
    \/ \E q \in Queries, k \in KValues : SearchBm25(q, k)
    \/ \E q \in Queries, k \in KValues : SearchVector(q, k)
    \/ \E q \in Queries, kb \in KValues, kv \in KValues, kr \in KFinalValues :
          Retrieve(q, kb, kv, kr)
    \/ \E q \in Queries, kb \in KValues, kv \in KValues, kr \in KFinalValues :
          GraphRetrieve(q, kb, kv, kr, <<>>)
    \/ Return

Spec == Init /\ [][Next]_vars

\* the knowledge graph alone
NextGraph ==
    \/ \E doc \in GraphDocs, me \in {1, DefaultMaxExpanded} : AttachGraph(doc, me)
    \/ \E e \in NodeIds, hops \in HopValues : GetRelated(e, hops)
    \/ Return

SpecGraph == Init /\ [][NextGraph]_vars

\* the graph-enhanced retriever over a store, both searches asked for the same
\* number of candidates
NextExpand ==
    \/ \E cs \in ChunkLists : BuildIndex(cs)
    \/ LoadIndex
    \/ \E doc \in ExpandDocs, me \in {1, DefaultMaxExpanded} : AttachGraph(doc, me)
    \/ \E ord \in Perms(EntityIds(code_graph)) :
          \E q \in Queries, k \in KValues, kr \in KFinalValues :
             GraphRetrieve(q, k, k, kr, ord)
    \/ Return

SpecExpand == Init /\ [][NextExpand]_vars

\* queries of an orchestrator with or without a SafetyAgent, over a store that
\* is empty or holds fragments of f.py, with top_k_rerank 0 or MaxK
AuditQueries == {<<"b">>, <<"a">>}
AuditChunkLists == {cs \in ChunkLists : \A i \in 1..Len(cs) : cs[i].meta.path = "f.py"}

NextAudit ==
    \/ \E cs \in AuditChunkLists : BuildIndex(cs)
    \/ LoadIndex
    \/ \E has_predict \in BOOLEAN, safety_agent \in BOOLEAN :
          NewOrchestrator(has_predict, safety_agent)
    \/ \E question \in AuditQueries, kr \in {0, MaxK}, esc \in BOOLEAN :
          QueryStart(question, MaxK, MaxK, kr, MaxK, esc)
    \/ \E invoked \in LLMCalls : \E predicted \in PredictCalls(llm, invoked) :
          FirstAnswer(invoke_llm(llm, invoked, predicted))
    \/ \E invoked \in LLMCalls : \E predicted \in PredictCalls(llm, invoked) :
          RefinedAnswer(invoke_llm(llm, invoked, predicted))
    \/ QueryReturn

SpecAudit == Init /\ [][NextAudit]_vars

\* the fragments of one parsed file are split: max_chars and overlap_chars are
\* the integers of the configuration
NextSplit ==
    \/ \E cs \in ChunkLists \cup {<<>>}, max_chars \in 1..MaxChars,
          overlap_chars \in 0..MaxChars : SplitCall(cs, max_chars, overlap_chars)
    \/ SplitFor
    \/ SplitWhile
    \/ SplitReturn

\* a call of split_long_chunks runs on as long as it has a step to take
SpecSplit == Init /\ [][NextSplit]_vars /\ WF_vars(SplitFor) /\ WF_vars(SplitWhile)

\* the refinement loop of the orchestrator over a store
NextQuery ==
    \/ \E cs \in ChunkLists : BuildIndex(cs)
    \/ LoadIndex
    \/ \E question \in Queries, k \in KValues, kr \in KFinalValues,
          mc \in {1, MaxK}, esc \in BOOLEAN : QueryStart(question, k, k, kr, mc, esc)
    \/ \E has_predict \in BOOLEAN : NewOrchestrator(has_predict, FALSE)
    \/ \E invoked \in LLMCalls : \E predicted \in PredictCalls(llm, invoked) :
          FirstAnswer(invoke_llm(llm, invoked, predicted))
    \/ \E invoked \in LLMCalls : \E predicted \in PredictCalls(llm, invoked) :
          RefinedAnswer(invoke_llm(llm, invoked, predicted))
    \/ QueryReturn

SpecQuery == Init /\ [][NextQuery]_vars

\* index builds that write file by file, beside processes that load the index
NextSave ==
    \/ \E cs \in ChunkLists : SaveFaiss(cs)
    \/ SaveChunks
    \/ SaveBm25
    \/ LoadIndex

SpecSave == Init /\ [][NextSave]_vars

\* the graph document of a serving process: foo calls bar, bar calls baz
ServingDoc ==
    [entities |-> <<Foo, Bar, Baz>>,
     edges |-> <<<<Foo.id, Bar.id, "CALLS">>, <<Bar.id, Baz.id, "CALLS">>>>]

\* a serving process: the index and the graph are loaded, then every operation
\* of the query path runs, one request at a time
NextServe ==
    \/ \E cs \in ChunkLists : BuildIndex(cs)
    \/ LoadIndex
    \/ AttachGraph(ServingDoc, DefaultMaxExpanded)
    \/ NewOrchestrator(FALSE, FALSE)
    \/ pc = "idle" /\ \E q \in Queries, k \in KValues : SearchBm25(q, k)
    \/ pc = "idle" /\ \E q \in Queries, k \in KValues : SearchVector(q, k)
    \/ pc = "idle" /\ \E q \in Queries, k \in KValues, kr \in KFinalValues :
          Retrieve(q, k, k, kr)
    \/ pc = "idle" /\ \E ord \in Perms(EntityIds(code_graph)) :
          \E q \in Queries, k \in KValues, kr \in KFinalValues :
             GraphRetrieve(q, k, k, kr, ord)
    \/ Return
    \/ \E question \in Queries, k \in KValues, kr \in KFinalValues :
          QueryStart(question, k, k, kr, MaxK, TRUE)
    \/ \E invoked \in LLMCalls : FirstAnswer(invoke_llm(llm, invoked, invoked))
    \/ \E invoked \in LLMCalls : RefinedAnswer(invoke_llm(llm, invoked, invoked))
    \/ QueryReturn

SpecServe == Init /\ [][NextServe]_vars

\* graph builds from files, and the saved graph read back
NextBuildGraph ==
    \/ \E files \in FileLists : BuildGraph(files)
    \/ GraphSaveLoad
    \/ \E name \in ResolvedNames, file \in FilePool : ResolveEntity(name, file)
    \/ Return

SpecBuildGraph == Init /\ [][NextBuildGraph]_vars

\* the orchestrator's helper functions, applied to inputs of their own
NextHelpers ==
    \/ \E response \in ScoredResponses, question \in ScoredQuestions :
          EstimateConfidence(response, question)
    \/ \E query \in ClassifierQueries : Classify(query)
    \/ \E hits1 \in HitLists, hits2 \in HitLists : MergeHits(hits1, hits2)
    \/ Return

\* the helper functions read neither the store nor the reranker
InitHelpers == Init /\ ~reranker

SpecHelpers == InitHelpers /\ [][NextHelpers]_vars

----------------------------------------------------------------------------
(* Properties of the fragment store and the fusion retriever (Spec) *)

Ids(hits) == {hits[i].chunk.chunk_id : i \in 1..Len(hits)}
LexicalHits == search_bm25(call.query, call.kb).hits
SemanticHits == search_vector(call.query, call.kv).hits
BaseOutcome == HybridRetriever_retrieve(call.query, call.kb, call.kv, call.kr)

\* C1: without a reranker, retrieve returns every fragment id at most once, and
\* an id found by both searches carries the score of its lexical (BM25) hit.
C1_LexicalPrecedence ==
    (call.op = "retrieve" /\ ~reranker) =>
        /\ ~result.raised
        /\ \A i, j \in 1..Len(result.hits) :
              i /= j => result.hits[i].chunk.chunk_id /= result.hits[j].chunk.chunk_id
        /\ \A i \in 1..Len(result.hits) : \A j \in 1..Len(LexicalHits) :
              ( /\ LexicalHits[j].chunk.chunk_id = result.hits[i].chunk.chunk_id
                /\ result.hits[i].chunk.chunk_id \in Ids(SemanticHits) )
              => result.hits[i].score = LexicalHits[j].score

\* a result holding a fragment both searches found, with two different scores
C1_Witness ==
    /\ call.op = "retrieve" /\ ~reranker
    /\ \E i \in 1..Len(result.hits) : \E j \in 1..Len(LexicalHits), m \in 1..Len(SemanticHits) :
          /\ LexicalHits[j].chunk.chunk_id = result.hits[i].chunk.chunk_id
          /\ SemanticHits[m].chunk.chunk_id = result.hits[i].chunk.chunk_id
          /\ LexicalHits[j].score /= SemanticHits[m].score

\* C8: with no graph attached, GraphEnhancedRetriever.retrieve returns the same
\* ordered sequence, with the same scores, as the wrapped retriever.
C8_PassThrough ==
    (call.op = "graph_retrieve" /\ code_graph.none) => result = BaseOutcome

\* a pass-through of hits that are not in score order
C8_Witness ==
    /\ call.op = "graph_retrieve" /\ code_graph.none
    /\ Len(result.hits) >= 2
    /\ result.hits[1].score < result.hits[2].score

\* C9: retrieve with an empty query string on a store that holds fragments
\* returns the empty result and raises nothing.
C9_EmptyQueryEmptyResult ==
    (call.op = "retrieve" /\ call.query = <<>> /\ chunks /= <<>>) => result = Ok(<<>>)

\* C10: on a store that holds no fragments, search_bm25, search_vector and
\* retrieve return the empty sequence for every query and k, and raise nothing.
C10_EmptyStoreEmptyResult ==
    (call.op \in {"search_bm25", "search_vector", "retrieve"} /\ chunks = <<>>)
        => result = Ok(<<>>)

\* each of the three calls made on an empty store, asking for at least one hit
C10_Witness ==
    /\ chunks = <<>> /\ bm25.none /\ faiss_index.none
    /\ call.op = "retrieve" /\ call.query /= <<>> /\ call.kr > 0

----------------------------------------------------------------------------
(* Properties of the knowledge graph (SpecGraph) *)

Neighbours(g, n) == successors(g, n) \cup predecessors(g, n)

\* the nodes within hops edges of S in the undirected view
RECURSIVE WithinHops(_, _, _)
WithinHops(g, S, hops) ==
    IF hops = 0 THEN S
    ELSE WithinHops(g, S \cup UNION {Neighbours(g, n) : n \in S}, hops - 1)

\* C2: get_related_entities(e, max_hops) returns exactly the known, non-external
\* entities within max_hops edges of e in the undirected view of the graph.
C2_RelatedIsReachable ==
    call.op = "get_related_entities" =>
        related \ {call.entity} =
            {x \in WithinHops(code_graph, {call.entity}, call.hops) \ {call.entity} :
                x \in EntityIds(code_graph) /\ ~StartsWithStar(x)}

----------------------------------------------------------------------------
(* Properties of the graph-enhanced retriever (SpecExpand) *)

IsExpansion(hit) == hit.chunk.meta.type = "graph_expansion"

\* the position in base of the hit that produced the expansion x: the first base
\* hit whose fragment overlaps the seed entity x was expanded from
OriginIndex(base, x) ==
    CHOOSE k \in 1..Len(base) :
        /\ x.chunk.meta.source_entity \in Range(chunk_to_entities(code_graph, base[k].chunk))
        /\ \A l \in 1..(k - 1) :
              x.chunk.meta.source_entity \notin Range(chunk_to_entities(code_graph, base[l].chunk))

\* C6: in the list retrieve returns, an expansion fragment never stands before
\* the base hit it was produced from, whatever that hit's score.
C6_ExpansionNeverOutranks ==
    call.op = "graph_retrieve" =>
        \A i, j \in 1..Len(result.hits) :
            ( /\ IsExpansion(result.hits[i])
              /\ result.hits[j] =
                    BaseOutcome.hits[OriginIndex(BaseOutcome.hits, result.hits[i])] )
                => j < i

\* C7: every expansion fragment has exactly 0.8 times the score of the base hit
\* whose seed entity led to it.
C7_ExpansionScore ==
    call.op = "graph_retrieve" =>
        \A i \in 1..Len(result.hits) :
            IsExpansion(result.hits[i]) =>
                5 * result.hits[i].score =
                    4 * BaseOutcome.hits[OriginIndex(BaseOutcome.hits, result.hits[i])].score

\* an expansion produced from a base hit that is not the first one and whose
\* score differs from the first one's
C7_Witness ==
    /\ call.op = "graph_retrieve"
    /\ \E i \in 1..Len(result.hits) :
          /\ IsExpansion(result.hits[i])
          /\ OriginIndex(BaseOutcome.hits, result.hits[i]) > 1
          /\ BaseOutcome.hits[OriginIndex(BaseOutcome.hits, result.hits[i])].score
                /= BaseOutcome.hits[1].score
          /\ result.hits[i].score /= 0

----------------------------------------------------------------------------
(* Properties of the orchestrator's refinement loop (SpecQuery) *)

\* C3: in every execution of Orchestrator.query the retriever is called at most
\* twice and the language model at most twice (one regeneration); nothing repeats.
C3_BoundedRefinement ==
    trace.n_retrieve <= 2 /\ trace.n_generate <= 2

\* a query that refined once, regenerated once, ended with a regenerated answer
\* whose confidence is still below 0.5
C3_Witness ==
    /\ pc = "DONE"
    /\ trace.n_retrieve = 2
    /\ trace.n_generate = 2
    /\ ~locals.confidence.none
    /\ BelowHalf(locals.confidence)

\* the fragment ids of the refined retrieval that the first pass did not return
NewIds == Ids(locals.hits2) \ Ids(locals.hits)

\* C4: the answer is generated a second time only if the refined retrieval
\* returned at least one fragment id absent from the first-pass hits.
C4_RegenerateOnlyOnNewHits ==
    trace.n_generate = 2 => NewIds /= {}

\* the first-pass confidence was scored and is at least 0.5
FirstConfidenceHigh ==
    ~trace.first_confidence.none /\ ~BelowHalf(trace.first_confidence)

\* C5 as stated: the refinement retrieval happens only with self-correction
\* enabled and a first confidence below 0.5; with self-correction disabled or a
\* first confidence of at least 0.5 a finished query made exactly one
\* retrieval and one generation.
C5_RefineOnlyOnLowConfidence_Original ==
    /\ trace.n_retrieve = 2 =>
          /\ args.enable_self_correction
          /\ ~trace.first_confidence.none
          /\ BelowHalf(trace.first_confidence)
    /\ (pc = "DONE" /\ (~args.enable_self_correction \/ FirstConfidenceHigh)) =>
          trace.n_retrieve = 1 /\ trace.n_generate = 1

\* C5: the refinement retrieval happens only with self-correction enabled and a
\* first confidence below 0.5; with self-correction disabled or a first
\* confidence of at least 0.5 a finished query made exactly one retrieval, and
\* exactly one generation when that retrieval returned a hit, none when it
\* returned nothing.
C5_RefineOnlyOnLowConfidence ==
    /\ trace.n_retrieve = 2 =>
          /\ args.enable_self_correction
          /\ ~trace.first_confidence.none
          /\ BelowHalf(trace.first_confidence)
    /\ (pc = "DONE" /\ (~args.enable_self_correction \/ FirstConfidenceHigh)) =>
          /\ trace.n_retrieve = 1
          /\ trace.n_generate = (IF locals.hits = <<>> THEN 0 ELSE 1)

\* a finished query with self-correction enabled whose first answer scored at
\* least 0.5: one retrieval, one generation
C5_Witness ==
    /\ pc = "DONE"
    /\ args.enable_self_correction
    /\ FirstConfidenceHigh
    /\ trace.n_retrieve = 1
    /\ trace.n_generate = 1

\* C11: a failure of the language-model invocation never propagates out of
\* _invoke_llm or query, whether or not the LLM has a predict method: no query
\* ends by raising.
C11_LLMFailureNeverPropagates ==
    pc /= "RAISED"

\* C12: when the initial retrieval returns no hits, query returns the explicit
\* nothing-found response, and that execution makes no generation and no
\* refinement retrieval.
C12_NothingFound ==
    (pc /= "idle" /\ locals.hits = <<>>) =>
        /\ pc = "DONE"
        /\ locals.output = "not_found"
        /\ trace.n_generate = 0
        /\ trace.n_retrieve = 1

\* a query with self-correction enabled on a loaded, non-empty store ended with
\* the nothing-found response
C12_Witness ==
    /\ pc = "DONE"
    /\ locals.output = "not_found"
    /\ args.enable_self_correction
    /\ chunks /= <<>>
    /\ trace.n_generate = 0

----------------------------------------------------------------------------
(* Properties of the orchestrator's helper functions (SpecHelpers) *)

\* the question's terms that are not stop words
QuestionTerms == Range(tokenize(call.query)) \ stop_words

\* C13: _estimate_confidence returns at most 0.3 for every answer that holds an
\* admission-of-ignorance phrase, whatever its citations and term overlap.
C13_RefusalLowConfidence ==
    (call.op = "estimate_confidence" /\ call.response.refusal) =>
        10 * result.num <= 3 * result.den

\* a refusing answer that cites a source and repeats every term of the question
C13_Witness ==
    /\ call.op = "estimate_confidence"
    /\ call.response.refusal
    /\ call.response.citations
    /\ QuestionTerms /= {}
    /\ QuestionTerms \subseteq call.response.terms

\* C14: for every question and answer the value _estimate_confidence returns
\* lies in [0, 1].
C14_ConfidenceInUnitInterval ==
    call.op = "estimate_confidence" =>
        /\ ~result.none
        /\ result.den > 0
        /\ 0 <= result.num
        /\ result.num <= result.den

\* the cases at the ends: a citing answer to a question of stop words only, a
\* citing answer with full overlap (value 1), an answer with nothing (value 0)
C14_Witness ==
    /\ call.op = "estimate_confidence"
    /\ ~call.response.refusal
    /\ \/ /\ tokenize(call.query) /= <<>>
          /\ QuestionTerms = {}
          /\ call.response.citations
          /\ 20 * result.num = 13 * result.den
       \/ /\ QuestionTerms /= {}
          /\ result.num = result.den

----------------------------------------------------------------------------
(* Properties of index builds beside loads (SpecSave) *)

\* the index directories a load may see if builds are atomic: the empty
\* directory, or the three files of one complete save
WholeIndexes == {EmptyDir} \cup {SavedIndex(cs) : cs \in ChunkLists}

\* C15: an index build is atomic with respect to a concurrent load: what a
\* store holds after load is always the content of one whole index, never the
\* vector index of one build with the fragments or lexical corpus of another.
C15_LoadSeesWholeIndex ==
    \E d \in WholeIndexes :
        /\ faiss_index = load_faiss(d, NoneValue)
        /\ chunks = load_chunks(d)
        /\ bm25 = load_bm25(d, NoneValue)

----------------------------------------------------------------------------
(* Properties of a serving process (SpecServe) *)

\* a step of the query path: a call of a search or a retrieve begins or returns,
\* or Orchestrator.query moves on
QueryPathStep == call' /= call \/ pc' /= pc

\* a search just made, made again now with the same arguments, returns the
\* recorded result
SearchRepeats ==
    /\ call.op = "search_bm25" => result = search_bm25(call.query, call.kb)
    /\ call.op = "search_vector" => result = search_vector(call.query, call.kv)

\* C16: no operation of the query path changes the store's fragments, lexical
\* corpus or vector index, or the graph; and a search repeated with the same
\* arguments returns the identical ordered result.
C16_QueryPathReadOnly ==
    /\ [][QueryPathStep =>
            UNCHANGED <<disk, chunks, bm25, faiss_index, code_graph>>]_vars
    /\ []SearchRepeats

\* a reranked retrieval over the loaded graph that returned an expansion, on a
\* store of more than one fragment
C16_Witness ==
    /\ call.op = "graph_retrieve"
    /\ reranker
    /\ ~code_graph.none
    /\ Len(chunks) > 1
    /\ \E i \in 1..Len(result.hits) : IsExpansion(result.hits[i])

----------------------------------------------------------------------------
(* Properties of graph builds and graph persistence (SpecBuildGraph) *)

\* C17: save followed by load into a fresh graph is lossless: the loaded graph
\* has the same entity ids with the same field values and the same set of
\* (source, target, relation) edges as the saved graph.
C17_SaveLoadLossless ==
    call.op = "graph_save_load" =>
        /\ EntityIds(result) = EntityIds(code_graph)
        /\ \A id \in EntityIds(code_graph) : EntityOf(result, id) = EntityOf(code_graph, id)
        /\ result.edges = code_graph.edges

\* a graph of several files with call edges and an inheritance edge to an
\* external name, saved and loaded
C17_Witness ==
    /\ call.op = "graph_save_load"
    /\ Cardinality(EntityIds(code_graph)) >= 4
    /\ \E e \in code_graph.edges : e[3] = "CALLS"
    /\ \E e \in code_graph.edges : e[3] = "INHERITS" /\ StartsWithStar(e[2])

IsGoodFile(file) == file.status = "ok"

\* C18: build_from_files never aborts on a file that fails to parse or read:
\* the build completes, and the graph is the one the same list without the bad
\* files gives.
C18_BadFilesSkipped ==
    call.op = "build_from_files" =>
        /\ ~result.raised
        /\ code_graph = build_from_files(EmptyGraph, SelectSeq(call.files, IsGoodFile)).g

\* a build whose list holds a bad file of each kind before a good file, and
\* which found relationships
C18_Witness ==
    /\ call.op = "build_from_files"
    /\ \E i, j, k \in 1..Len(call.files) :
          /\ i < k /\ j < k
          /\ call.files[i].status = "syntax_error"
          /\ call.files[j].status = "unreadable"
          /\ call.files[k].status = "ok"
    /\ \E e \in code_graph.edges : e[3] = "CALLS"

----------------------------------------------------------------------------
(* Properties of the intent classifier (SpecHelpers) *)

\* the number of keywords of an intent that occur in the lower-cased query
MatchCount(intent) ==
    Cardinality({kw \in INTENT_KEYWORDS[intent] : IsSubstring(kw, Lower(call.query))})

TieOrder == <<"CODE", "MATH", "DATA", "DOCS">>

\* C19: classify returns GENERAL exactly when no intent keyword occurs in the
\* lower-cased query; otherwise an intent with the maximum keyword-match count,
\* the first in the order CODE, MATH, DATA, DOCS among those tied at it.
C19_ClassifyMaxWithPriority ==
    call.op = "classify" =>
        /\ result = "GENERAL" <=> \A i \in 1..4 : MatchCount(TieOrder[i]) = 0
        /\ result /= "GENERAL" =>
              \E i \in 1..4 :
                 /\ result = TieOrder[i]
                 /\ \A j \in 1..4 : MatchCount(TieOrder[j]) <= MatchCount(TieOrder[i])
                 /\ \A j \in 1..(i - 1) : MatchCount(TieOrder[j]) < MatchCount(TieOrder[i])

\* a query in which MATH and DATA tie at the maximum: MATH is returned
C19_Witness ==
    /\ call.op = "classify"
    /\ result = "MATH"
    /\ MatchCount("DATA") = MatchCount("MATH")

----------------------------------------------------------------------------
(* Properties of the orchestrator's merge (SpecHelpers) *)

\* the positions of hits2 whose fragment id occurs neither in hits1 nor earlier
\* in hits2
KeptOfHits2 ==
    {j \in 1..Len(call.hits2) :
        /\ call.hits2[j].chunk.chunk_id \notin Ids(call.hits1)
        /\ \A l \in 1..(j - 1) :
              call.hits2[l].chunk.chunk_id /= call.hits2[j].chunk.chunk_id}

\* the n-th of those positions
NthKept(n) ==
    CHOOSE j \in KeptOfHits2 : Cardinality({l \in KeptOfHits2 : l <= j}) = n

\* C20: _merge_hits(hits1, hits2) is hits1 in its order followed by the hits of
\* hits2, in order, whose fragment id occurs neither in hits1 nor earlier in
\* hits2; an id present in both keeps the hit and score of hits1.
C20_MergeFirstWins ==
    call.op = "merge_hits" =>
        /\ Len(result.hits) = Len(call.hits1) + Cardinality(KeptOfHits2)
        /\ \A i \in 1..Len(call.hits1) : result.hits[i] = call.hits1[i]
        /\ \A n \in 1..Cardinality(KeptOfHits2) :
              result.hits[Len(call.hits1) + n] = call.hits2[NthKept(n)]

\* hits2 holds a fragment of hits1 under another score, and a new fragment
\* after it
C20_Witness ==
    /\ call.op = "merge_hits"
    /\ \E i \in 1..Len(call.hits1), j \in 1..Len(call.hits2) :
          /\ call.hits1[i].chunk.chunk_id = call.hits2[j].chunk.chunk_id
          /\ call.hits1[i].score /= call.hits2[j].score
          /\ \E l \in (j + 1)..Len(call.hits2) : l \in KeptOfHits2

\* the candidates of the merge for one iteration order: the base hits, then every
\* expansion whose id is neither a base hit's nor an earlier expansion's
MergeCandidates(base, ord) ==
    LET expanded == expand_with_graph(code_graph, base, ord)
        kept == {j \in 1..Len(expanded) :
                    /\ expanded[j].chunk.chunk_id \notin Ids(base)
                    /\ \A l \in 1..(j - 1) :
                          expanded[l].chunk.chunk_id /= expanded[j].chunk.chunk_id}
    IN  Range(base) \cup {expanded[j] : j \in kept}

\* hits is a top-k selection of the set cand, in descending score order
IsTopK(hits, cand, k) ==
    /\ Len(hits) = Min(k, Cardinality(cand))
    /\ Range(hits) \subseteq cand
    /\ \A i, j \in 1..Len(hits) :
          i /= j => hits[i].chunk.chunk_id /= hits[j].chunk.chunk_id
    /\ \A i \in 1..(Len(hits) - 1) : hits[i].score >= hits[i + 1].score
    /\ \A c \in cand \ Range(hits) : \A i \in 1..Len(hits) : c.score <= hits[i].score

\* C21: with a graph attached and non-empty base hits, graph retrieve returns the
\* first k_final items of the base hits plus the expansions whose id collides
\* with no base hit, ordered by score descending: no id twice, at most k_final
\* items, a base hit for every id a base hit carries.
C21_MergedTopK ==
    ( /\ call.op = "graph_retrieve"
      /\ ~code_graph.none
      /\ ~BaseOutcome.raised
      /\ BaseOutcome.hits /= <<>> ) =>
        /\ ~result.raised
        /\ Len(result.hits) <= call.kr
        /\ \A i \in 1..Len(result.hits) :
              result.hits[i].chunk.chunk_id \in Ids(BaseOutcome.hits)
              => result.hits[i] \in Range(BaseOutcome.hits)
        /\ \E ord \in Perms(EntityIds(code_graph)) :
              IsTopK(result.hits, MergeCandidates(BaseOutcome.hits, ord), call.kr)

\* an expansion made it into the result and a base hit was cut off by k_final
C21_Witness ==
    /\ call.op = "graph_retrieve"
    /\ ~code_graph.none
    /\ ~BaseOutcome.raised
    /\ \E i \in 1..Len(result.hits) : IsExpansion(result.hits[i])
    /\ \E i \in 1..Len(result.hits) : ~IsExpansion(result.hits[i])
    /\ \E j \in 1..Len(BaseOutcome.hits) : BaseOutcome.hits[j] \notin Range(result.hits)

\* the positions of a fused list that hold the first occurrence of their id
FirstOccurrences(fused) ==
    {i \in 1..Len(fused) :
        \A l \in 1..(i - 1) : fused[l].chunk.chunk_id /= fused[i].chunk.chunk_id}

\* C22: with no reranker, retrieve returns the first k_final elements of the
\* deduplicated concatenation lexical ++ semantic, in that fusion order and not
\* re-sorted by score.
C22_FusionOrder ==
    (call.op = "retrieve" /\ ~reranker) =>
        LET fused == LexicalHits \o SemanticHits
            kept == FirstOccurrences(fused)
        IN  /\ ~result.raised
            /\ Len(result.hits) = Min(call.kr, Cardinality(kept))
            /\ \A n \in 1..Len(result.hits) :
                  \E i \in kept : /\ Cardinality({l \in kept : l <= i}) = n
                                  /\ result.hits[n] = fused[i]

\* a semantic-only hit placed after a lexical hit of lower score, with a
\* fragment both searches found
C22_Witness ==
    /\ call.op = "retrieve" /\ ~reranker
    /\ Len(result.hits) = 2
    /\ result.hits[1].score < result.hits[2].score
    /\ result.hits[2].chunk.chunk_id \notin Ids(LexicalHits)
    /\ Ids(LexicalHits) \cap Ids(SemanticHits) /= {}

\* C23: every query made with a SafetyAgent attached has appended a QUERY entry
\* for its question when it returns, whatever the retrieval found and whatever
\* the confidence; and every step leaves the entries already logged in place.
C23_EveryQueryAudited ==
    [][ /\ (~safety.none /\ pc /= "DONE" /\ pc' = "DONE") =>
              /\ Len(safety'.audit_log) = Len(safety.audit_log) + 1
              /\ safety'.audit_log[Len(safety'.audit_log)].operation = "QUERY"
              /\ safety'.audit_log[Len(safety'.audit_log)].query = args'.question
        /\ Len(safety'.audit_log) >= Len(safety.audit_log)
        /\ SubSeq(safety'.audit_log, 1, Len(safety.audit_log)) = safety.audit_log ]_vars

\* the entity an expansion fragment describes: its id "graph:<entity id>" without
\* the prefix
RelatedOf(x) == Tail(x.chunk.chunk_id)

\* C24: within one retrieve call every entity is expanded at most once: no two
\* expansion fragments describe the same entity, an entity emitted as an
\* expansion is not traversed as a seed afterwards, and a seed is not emitted as
\* an expansion at or after its own traversal.
C24_ExpandedOnce ==
    (call.op = "graph_retrieve" /\ ~code_graph.none /\ ~BaseOutcome.raised) =>
        \A ord \in Perms(EntityIds(code_graph)) :
            LET expanded == expand_with_graph(code_graph, BaseOutcome.hits, ord)
            IN  \A i, j \in 1..Len(expanded) :
                    /\ i < j => RelatedOf(expanded[i]) /= RelatedOf(expanded[j])
                    /\ i < j => expanded[j].chunk.meta.source_entity /= RelatedOf(expanded[i])
                    /\ i <= j => RelatedOf(expanded[j]) /= expanded[i].chunk.meta.source_entity

\* a later base hit overlaps an entity that was already emitted as an expansion
\* and that has related entities of its own
C24_Witness ==
    /\ call.op = "graph_retrieve" /\ ~code_graph.none /\ ~BaseOutcome.raised
    /\ \E ord \in Perms(EntityIds(code_graph)) :
          LET base == BaseOutcome.hits
              expanded == expand_with_graph(code_graph, base, ord)
          IN  \E i \in 1..Len(expanded), k \in 1..Len(base) :
                /\ RelatedOf(expanded[i]) \in Range(chunk_to_entities(code_graph, base[k].chunk))
                /\ OriginIndex(base, expanded[i]) < k
                /\ get_related_entities(code_graph, RelatedOf(expanded[i]),
                                        max_expansion_hops)
                       \ {RelatedOf(expanded[i]), expanded[i].chunk.meta.source_entity} /= {}

\* C25: each seed entity contributes at most max_expanded_chunks expansion
\* fragments, each of them for an entity that get_related_entities returns for
\* that seed with max_expansion_hops.
C25_SeedContribution ==
    (call.op = "graph_retrieve" /\ ~code_graph.none /\ ~BaseOutcome.raised) =>
        \A ord \in Perms(EntityIds(code_graph)) :
            LET expanded == expand_with_graph(code_graph, BaseOutcome.hits, ord)
            IN  \A i \in 1..Len(expanded) :
                    LET seed == expanded[i].chunk.meta.source_entity
                    IN  /\ RelatedOf(expanded[i]) \in
                              get_related_entities(code_graph, seed, max_expansion_hops)
                        /\ Cardinality({j \in 1..Len(expanded) :
                                expanded[j].chunk.meta.source_entity = seed}) <= max_expanded

\* a seed with more related entities than max_expanded_chunks, expanded up to
\* the cap
C25_Witness ==
    /\ call.op = "graph_retrieve" /\ ~code_graph.none /\ ~BaseOutcome.raised
    /\ \E ord \in Perms(EntityIds(code_graph)) :
          LET expanded == expand_with_graph(code_graph, BaseOutcome.hits, ord)
          IN  \E i \in 1..Len(expanded) :
                LET seed == expanded[i].chunk.meta.source_entity
                IN  /\ Cardinality(get_related_entities(code_graph, seed,
                                                        max_expansion_hops) \ {seed})
                          > max_expanded
                    /\ Cardinality({j \in 1..Len(expanded) :
                            expanded[j].chunk.meta.source_entity = seed}) = max_expanded

\* C26: _resolve_entity(name, file) returns the id of the entity of that name in
\* the same file if there is one; otherwise the id of the first entity, in
\* insertion order, whose name is name; otherwise the external wildcard id.
C26_ResolveOrder ==
    call.op = "resolve_entity" =>
        LET name == call.query[1]
            local_id == EntityId(call.files[1].path, name)
            ents == code_graph.entities
            named == {i \in 1..Len(ents) : ents[i].name = name}
        IN  \E id \in related :
              /\ related = {id}
              /\ local_id \in EntityIds(code_graph) => id = local_id
              /\ (local_id \notin EntityIds(code_graph) /\ named /= {}) =>
                    \E i \in named : /\ id = ents[i].id
                                     /\ \A j \in named : i <= j
              /\ (local_id \notin EntityIds(code_graph) /\ named = {}) =>
                    id = ExternalId(name)

\* the name is defined in the file of the call and, earlier in insertion order,
\* in another file
C26_Witness ==
    /\ call.op = "resolve_entity"
    /\ related = {EntityId(call.files[1].path, call.query[1])}
    /\ \E i, j \in 1..Len(code_graph.entities) :
          /\ i < j
          /\ code_graph.entities[i].name = call.query[1]
          /\ code_graph.entities[i].file_path /= call.files[1].path
          /\ code_graph.entities[j].id = EntityId(call.files[1].path, call.query[1])

\* C27: when the answer is about to be regenerated and the refined retrieval
\* returned a fragment id the first pass did not, the context of the second
\* generation (the first max_context_chunks merged hits) holds such a new
\* fragment, so it differs from the context of the first generation.
C27_RegenerationSeesNewContext ==
    (pc = "REFINED_RETRIEVAL" /\ NewIds /= {}) =>
        LET shown == Take(orch_merge_hits(locals.hits, locals.hits2),
                          args.max_context_chunks)
        IN  /\ locals.context = format_context(shown, args.max_context_chunks)
            /\ \E i \in 1..Len(shown) : shown[i].chunk.chunk_id \in NewIds
            /\ locals.context /= format_context(locals.hits, args.max_context_chunks)

\* C28: split_long_chunks terminates for every finite list of fragments, every
\* max_chars >= 1 and every overlap_chars >= 0, overlap_chars >= max_chars
\* included: a call that has started returns, and each iteration of the while
\* loop that is followed by another one has moved the start offset forward.
C28_SplitTerminates ==
    /\ (splitting.pc = "for") ~> (splitting.pc = "returned")
    /\ [][(splitting.pc = "while" /\ splitting'.pc = "while")
              => splitting'.start > splitting.start]_vars

\* C29: the reverse index is consistent with the entities: for every file,
\* file_to_entities lists exactly the ids of the entities of that file, each id
\* once, and every entity's file is listed.
C29_ReverseIndexConsistent ==
    ~code_graph.none =>
        LET ents == code_graph.entities
            f2e == code_graph.file_to_entities
        IN  /\ \A i \in 1..Len(ents) : \E k \in 1..Len(f2e) : f2e[k][1] = ents[i].file_path
            /\ \A k \in 1..Len(f2e) :
                  LET ids == f2e[k][2]
                  IN  /\ Range(ids) = {ents[i].id : i \in {j \in 1..Len(ents) :
                                                            ents[j].file_path = f2e[k][1]}}
                      /\ \A m, n \in 1..Len(ids) : m /= n => ids[m] /= ids[n]

\* C30: after build_from_files every function or class entity still has the
\* DEFINES edge from the module entity of its file: a relation added later
\* between the same two nodes has not replaced it.
C30_DefinesKept ==
    ~code_graph.none =>
        \A i \in 1..Len(code_graph.entities) :
            LET e == code_graph.entities[i]
            IN  e.entity_type \in {"FUNCTION", "CLASS"} =>
                    <<<<e.file_path>>, e.id, "DEFINES">> \in code_graph.edges

====
